---------------------------- MODULE Spec2Model ----------------------------
(***************************************************************************)
(* wrapped-connex: the two asynchronous protocols of src/src/index.ts,     *)
(*   waitForReceipt (lines 307-330) and fetchEvents (lines 372-388),       *)
(* run as concurrent invocations against one chain client.                 *)
(*                                                                         *)
(* An invocation is suspended at an `await`; the chain client (ticker,     *)
(* transaction visitor, filter) and the caller's callback complete the     *)
(* request in flight, and the completion runs the invocation's code up to  *)
(* its next `await`, its return or its throw (run to completion).          *)
(***************************************************************************)
EXTENDS Integers, Sequences, FiniteSets

(* ------------------------------ bounds --------------------------------- *)

\* largest explicit `iterations` argument of waitForReceipt
MaxIterations == 2
\* most rows a filter returns to one invocation, over all its pages
MaxRows == 3
\* most invocations a caller makes again after one has settled
MaxRetries == 1
\* most items of an ABI list
MaxAbiItems == 2

(* ------------------------- program constants --------------------------- *)

\* `iterations = 5`
DefaultIterations == 5
\* `limit: number = 20`
DefaultLimit == 20

NotFoundMessage == "Transaction not found."
RevertedMessage == "The transaction has been reverted."

(* ----------------------------- universe -------------------------------- *)

\* concurrent invocations (activations of the two async functions)
Calls == {"a", "b"}
TxIds == {"tx1", "tx2"}
Filters == {"f1"}
\* the failures the chain client and the caller's callback may raise
ClientFailures == {"connection lost"}
CallbackFailures == {"handler failed"}

\* an optional argument: <<>> when omitted, <<n>> when given
IterationArgs == {<<>>} \cup {<<n>> : n \in 0..MaxIterations}
LimitArgs == {<<>>, <<1>>, <<2>>}

\* Connex.Thor.Transaction.Receipt, as far as the code reads it
Receipt(txId, reverted) == [id |-> txId, reverted |-> reverted]
\* `Receipt | null` is a sequence of at most one receipt
Null == <<>>

VARIABLES
    receipts,   \* chain: txId -> receipt of the mined transaction, or Null
    frame,      \* call -> the invocation's function, arguments and position
    i,          \* slot -> waitForReceipt's loop counter `i`
    offset,     \* slot -> fetchEvents's `offset`
    pending,    \* call -> the requests the invocation has in flight
    trace,      \* call -> the requests it made and the completions it got
    outcome,    \* call -> the state of the promise the invocation returned
    previous,   \* call -> what the caller's last settled invocation left
    abi,        \* the ABI list handed to getContract
    contract    \* the Contract object getContract returned, once it has

vars == <<receipts, frame, i, offset, pending, trace, outcome,
          previous, abi, contract>>

(* ------------------------- promises and events ------------------------- *)

PendingOutcome == [status |-> "pending", error |-> "", value |-> Null]
Resolved(v) == [status |-> "resolved", error |-> "", value |-> v]
Rejected(err) == [status |-> "rejected", error |-> err, value |-> Null]

NoEvent ==
    [kind |-> "", op |-> "", txId |-> "", filter |-> "", offset |-> 0,
     limit |-> 0, rows |-> <<>>, receipt |-> Null, error |-> ""]

CallTick == [NoEvent EXCEPT !.kind = "call", !.op = "ticker.next"]
ResolveTick == [NoEvent EXCEPT !.kind = "resolve", !.op = "ticker.next"]
RejectTick(err) ==
    [NoEvent EXCEPT !.kind = "reject", !.op = "ticker.next", !.error = err]
CallGetReceipt(txId) ==
    [NoEvent EXCEPT !.kind = "call", !.op = "getReceipt", !.txId = txId]
ResolveGetReceipt(txId, receipt) ==
    [NoEvent EXCEPT !.kind = "resolve", !.op = "getReceipt", !.txId = txId,
                    !.receipt = receipt]
RejectGetReceipt(txId, err) ==
    [NoEvent EXCEPT !.kind = "reject", !.op = "getReceipt", !.txId = txId,
                    !.error = err]
CallApply(filter, off, limit) ==
    [NoEvent EXCEPT !.kind = "call", !.op = "filter.apply", !.filter = filter,
                    !.offset = off, !.limit = limit]
ResolveApply(filter, off, limit, events) ==
    [NoEvent EXCEPT !.kind = "resolve", !.op = "filter.apply",
                    !.filter = filter, !.offset = off, !.limit = limit,
                    !.rows = events]
RejectApply(filter, off, limit, err) ==
    [NoEvent EXCEPT !.kind = "reject", !.op = "filter.apply",
                    !.filter = filter, !.offset = off, !.limit = limit,
                    !.error = err]
CallCallback(events) ==
    [NoEvent EXCEPT !.kind = "call", !.op = "callback", !.rows = events]
ResolveCallback(events) ==
    [NoEvent EXCEPT !.kind = "resolve", !.op = "callback", !.rows = events]
RejectCallback(events, err) ==
    [NoEvent EXCEPT !.kind = "reject", !.op = "callback", !.rows = events,
                    !.error = err]

NoFrame ==
    [fn |-> "none", pc |-> "idle", txId |-> "", iterations |-> 0,
     filter |-> "", limit |-> 0, events |-> <<>>]

\* nothing settled yet: the caller has made no invocation before this one
NoPrevious ==
    [count |-> 0, fn |-> "none", txId |-> "", filter |-> "", i |-> 0,
     offset |-> 0, outcome |-> PendingOutcome]

\* `{}`: a table without keys
EmptyTable == [n \in {} |-> <<>>]

\* `const contract: Contract = {methods: {constant: {}, signed: {},
\* clause: {}}, events: {}, ...}`; each table takes a name to the item its
\* entry was defined from, `returned` tells that getContract has returned
EmptyContract ==
    [constant |-> EmptyTable, signed |-> EmptyTable, clause |-> EmptyTable,
     events |-> EmptyTable, returned |-> FALSE]

(* ------------------------- the code's decisions ------------------------ *)

\* `iterations = 5`: the default parameter value
IterationsOf(arg) == IF arg = <<>> THEN DefaultIterations ELSE arg[1]

\* `limit: number = 20`: the default parameter value
LimitOf(arg) == IF arg = <<>> THEN DefaultLimit ELSE arg[1]

\* one counter and one offset for the module, shared by all invocations
SharedSlot(c) == "a"

\* `for (let i = 0; ...)`, `let offset = 0`: each invocation has its own
Slot(c) == c

\* the bound tested with > : one tick too many
BudgetExhaustedLate(ii, iterations) == ii > iterations

\* the bound tested only after a first pass through the loop body
BudgetExhaustedAfterFirst(ii, iterations) == ii > 0 /\ ii >= iterations

\* `if (i >= iterations)`
BudgetExhausted(ii, iterations) == ii >= iterations

\* the reverted flag never looked at
IsRevertedIgnored(receipt) == FALSE

\* `if (receipt?.reverted)`
IsReverted(receipt) == receipt # Null /\ receipt[1].reverted

\* the receipt never returned
IsPresentIgnored(receipt) == FALSE

\* `if (receipt)`
IsPresent(receipt) == receipt # Null

\* a page shorter than two rows taken for the end of the stream
EndOfStreamOnShortPage(events) == Len(events) < 2

\* the `break` left out
EndOfStreamNever(events) == FALSE

\* `if (events.length === 0) break`
EndOfStream(events) == Len(events) = 0

\* `offset++` written for `offset += limit`
NextOffsetByOne(off, limit) == off + 1

\* `offset += limit`
NextOffset(off, limit) == off + limit

\* the counter left where the caller's last invocation stopped
StaleCounter(c) == i[Slot(c)]

\* `let i = 0`
InitialCounter(c) == 0

\* the first window started one row late
InitialOffsetOne(c) == 1

\* the offset left where the caller's last invocation stopped
StaleOffset(c) == offset[Slot(c)]

\* `let offset = 0`
InitialOffset(c) == 0

(* ------------------------------ Init ----------------------------------- *)

Init ==
    /\ receipts \in [TxIds -> {Null}]
    /\ frame = [c \in Calls |-> NoFrame]
    /\ i = [c \in Calls |-> 0]
    /\ offset = [c \in Calls |-> 0]
    /\ pending = [c \in Calls |-> {}]
    /\ trace = [c \in Calls |-> <<>>]
    /\ outcome = [c \in Calls |-> PendingOutcome]
    /\ previous = [c \in Calls |-> NoPrevious]
    /\ abi = <<>>
    /\ contract = EmptyContract

(* --------------------------- the chain --------------------------------- *)

\* a block includes the transaction: its receipt exists from now on and
\* never changes
MineTransaction(txId, reverted) ==
    /\ receipts[txId] = Null
    /\ receipts' = [receipts EXCEPT ![txId] = <<Receipt(txId, reverted)>>]
    /\ UNCHANGED <<frame, i, offset, pending, trace, outcome, previous, abi, contract>>

(* -------------------------- waitForReceipt ----------------------------- *)

\* the loop without its `await ticker.next()`: the receipt asked for at once
LoopHeadWithoutTick(c, f, ii, tr) ==
    IF BudgetExhausted(ii, f.iterations)
    THEN /\ frame' = [frame EXCEPT ![c] = [f EXCEPT !.pc = "done"]]
         /\ outcome' = [outcome EXCEPT ![c] = Rejected(NotFoundMessage)]
         /\ pending' = [pending EXCEPT ![c] = {}]
         /\ trace' = [trace EXCEPT ![c] = tr]
    ELSE /\ frame' = [frame EXCEPT ![c] = [f EXCEPT !.pc = "receipt"]]
         /\ outcome' = outcome
         /\ pending' = [pending EXCEPT ![c] = {"getReceipt"}]
         /\ trace' = [trace EXCEPT ![c] = Append(tr, CallGetReceipt(f.txId))]

\* the head of the loop, entered in frame f with counter value ii and trace
\* tr: throw NotFound, or issue `await ticker.next()`
LoopHead(c, f, ii, tr) ==
    IF BudgetExhausted(ii, f.iterations)
    THEN /\ frame' = [frame EXCEPT ![c] = [f EXCEPT !.pc = "done"]]
         /\ outcome' = [outcome EXCEPT ![c] = Rejected(NotFoundMessage)]
         /\ pending' = [pending EXCEPT ![c] = {}]
         /\ trace' = [trace EXCEPT ![c] = tr]
    ELSE /\ frame' = [frame EXCEPT ![c] = [f EXCEPT !.pc = "tick"]]
         /\ outcome' = outcome
         /\ pending' = [pending EXCEPT ![c] = {"ticker.next"}]
         /\ trace' = [trace EXCEPT ![c] = Append(tr, CallTick)]

\* waitForReceipt(txId, iterations): `getTicker()`, `i = 0`, the loop head
CallWaitForReceipt(c, txId, iterationsArg) ==
    /\ frame[c].fn = "none"
    /\ i' = [i EXCEPT ![Slot(c)] = InitialCounter(c)]
    /\ LoopHead(c, [NoFrame EXCEPT !.fn = "waitForReceipt", !.txId = txId,
                                   !.iterations = IterationsOf(iterationsArg)],
                InitialCounter(c), <<>>)
    /\ UNCHANGED <<receipts, offset, previous, abi, contract>>

\* `await ticker.next()` resolves: issue `await ...getReceipt()`
TickerNextResolves(c) ==
    /\ frame[c].pc = "tick"
    /\ "ticker.next" \in pending[c]
    /\ frame' = [frame EXCEPT ![c].pc = "receipt"]
    /\ pending' = [pending EXCEPT ![c] = {"getReceipt"}]
    /\ trace' = [trace EXCEPT ![c] =
                    trace[c] \o <<ResolveTick, CallGetReceipt(frame[c].txId)>>]
    /\ UNCHANGED <<receipts, i, offset, outcome, previous, abi, contract>>

\* `await ticker.next()` rejects: nothing catches it
TickerNextRejects(c, err) ==
    /\ frame[c].pc = "tick"
    /\ "ticker.next" \in pending[c]
    /\ frame' = [frame EXCEPT ![c].pc = "done"]
    /\ pending' = [pending EXCEPT ![c] = {}]
    /\ trace' = [trace EXCEPT ![c] = Append(trace[c], RejectTick(err))]
    /\ outcome' = [outcome EXCEPT ![c] = Rejected(err)]
    /\ UNCHANGED <<receipts, i, offset, previous, abi, contract>>

\* `await ...getReceipt()` resolves with the chain's receipt or null:
\* throw Reverted, return the receipt, or `i++` and the loop head
GetReceiptResolves(c) ==
    LET receipt == receipts[frame[c].txId]
        tr == Append(trace[c], ResolveGetReceipt(frame[c].txId, receipt))
    IN  /\ frame[c].pc = "receipt"
        /\ "getReceipt" \in pending[c]
        /\ IF IsReverted(receipt)
           THEN /\ frame' = [frame EXCEPT ![c].pc = "done"]
                /\ outcome' = [outcome EXCEPT ![c] = Rejected(RevertedMessage)]
                /\ pending' = [pending EXCEPT ![c] = {}]
                /\ trace' = [trace EXCEPT ![c] = tr]
                /\ i' = i
           ELSE IF IsPresent(receipt)
           THEN /\ frame' = [frame EXCEPT ![c].pc = "done"]
                /\ outcome' = [outcome EXCEPT ![c] = Resolved(receipt)]
                /\ pending' = [pending EXCEPT ![c] = {}]
                /\ trace' = [trace EXCEPT ![c] = tr]
                /\ i' = i
           ELSE /\ i' = [i EXCEPT ![Slot(c)] = i[Slot(c)] + 1]
                /\ LoopHead(c, frame[c], i[Slot(c)] + 1, tr)
        /\ UNCHANGED <<receipts, offset, previous, abi, contract>>

\* the rejection caught and taken for "no receipt yet"
GetReceiptRejectsSwallowed(c, err) ==
    /\ frame[c].pc = "receipt"
    /\ "getReceipt" \in pending[c]
    /\ i' = [i EXCEPT ![Slot(c)] = i[Slot(c)] + 1]
    /\ LoopHead(c, frame[c], i[Slot(c)] + 1,
                Append(trace[c], RejectGetReceipt(frame[c].txId, err)))
    /\ UNCHANGED <<receipts, offset, previous, abi, contract>>

\* `await ...getReceipt()` rejects: nothing catches it
GetReceiptRejects(c, err) ==
    /\ frame[c].pc = "receipt"
    /\ "getReceipt" \in pending[c]
    /\ frame' = [frame EXCEPT ![c].pc = "done"]
    /\ pending' = [pending EXCEPT ![c] = {}]
    /\ trace' = [trace EXCEPT ![c] =
                    Append(trace[c], RejectGetReceipt(frame[c].txId, err))]
    /\ outcome' = [outcome EXCEPT ![c] = Rejected(err)]
    /\ UNCHANGED <<receipts, i, offset, previous, abi, contract>>

(* ---------------------------- fetchEvents ------------------------------ *)

\* the rows at positions offset+1 .. offset+n of a filter's result set
RowsAt(off, n) == [j \in 1..n |-> off + j]

RECURSIVE Delivered(_)
\* the number of rows the filter has returned to an invocation so far
Delivered(tr) ==
    IF tr = <<>> THEN 0
    ELSE (IF Head(tr).kind = "resolve" /\ Head(tr).op = "filter.apply"
          THEN Len(Head(tr).rows) ELSE 0) + Delivered(Tail(tr))

\* the pages `filter.apply(offset, limit)` may return: at most limit rows,
\* and no row once the filter's result set is exhausted
FilterPages(off, limit, delivered) ==
    LET left == MaxRows - delivered
        most == IF limit < left THEN limit ELSE left
    IN  {RowsAt(off, n) : n \in 0..most}

\* issue `await filter.apply(offset, limit)` in frame f with trace tr
IssueApply(c, f, off, tr) ==
    /\ frame' = [frame EXCEPT ![c] = [f EXCEPT !.pc = "apply"]]
    /\ pending' = [pending EXCEPT ![c] = {"filter.apply"}]
    /\ trace' = [trace EXCEPT ![c] =
                    Append(tr, CallApply(f.filter, off, f.limit))]

\* `callback(events)` called and not awaited: the loop goes on at once
InvokeCallbackNoAwait(c, events, tr) ==
    LET off == NextOffset(offset[Slot(c)], frame[c].limit)
    IN  /\ frame' = [frame EXCEPT ![c].pc = "apply"]
        /\ pending' = [pending EXCEPT ![c] = {"callback", "filter.apply"}]
        /\ trace' = [trace EXCEPT ![c] =
                        tr \o <<CallCallback(events),
                                CallApply(frame[c].filter, off, frame[c].limit)>>]
        /\ offset' = [offset EXCEPT ![Slot(c)] = off]
        /\ outcome' = outcome

\* `await callback(events)` issued with the whole page, after trace tr
InvokeCallback(c, events, tr) ==
    /\ frame' = [frame EXCEPT ![c].pc = "callback", ![c].events = events]
    /\ pending' = [pending EXCEPT ![c] = {"callback"}]
    /\ trace' = [trace EXCEPT ![c] = Append(tr, CallCallback(events))]
    /\ offset' = offset
    /\ outcome' = outcome

\* fetchEvents(filter, callback, limit): `offset = 0`, the first application
CallFetchEvents(c, filter, limitArg) ==
    /\ frame[c].fn = "none"
    /\ offset' = [offset EXCEPT ![Slot(c)] = InitialOffset(c)]
    /\ IssueApply(c, [NoFrame EXCEPT !.fn = "fetchEvents", !.filter = filter,
                                     !.limit = LimitOf(limitArg)],
                  InitialOffset(c), <<>>)
    /\ UNCHANGED <<receipts, i, outcome, previous, abi, contract>>

\* `await filter.apply(offset, limit)` resolves with a page: break on the
\* empty page (the promise resolves), or issue `await callback(events)`
FilterApplyResolves(c, events) ==
    LET f == frame[c]
        tr == Append(trace[c],
                     ResolveApply(f.filter, offset[Slot(c)], f.limit, events))
    IN  /\ f.pc = "apply"
        /\ "filter.apply" \in pending[c]
        /\ events \in FilterPages(offset[Slot(c)], f.limit, Delivered(trace[c]))
        /\ IF EndOfStream(events)
           THEN /\ frame' = [frame EXCEPT ![c].pc = "done"]
                /\ outcome' = [outcome EXCEPT ![c] = Resolved(Null)]
                /\ pending' = [pending EXCEPT ![c] = {}]
                /\ trace' = [trace EXCEPT ![c] = tr]
                /\ offset' = offset
           ELSE InvokeCallback(c, events, tr)
        /\ UNCHANGED <<receipts, i, previous, abi, contract>>

\* `await filter.apply(offset, limit)` rejects: nothing catches it
FilterApplyRejects(c, err) ==
    LET f == frame[c]
    IN  /\ f.pc = "apply"
        /\ "filter.apply" \in pending[c]
        /\ frame' = [frame EXCEPT ![c].pc = "done"]
        /\ pending' = [pending EXCEPT ![c] = {}]
        /\ trace' = [trace EXCEPT ![c] =
                        Append(trace[c],
                               RejectApply(f.filter, offset[Slot(c)], f.limit, err))]
        /\ outcome' = [outcome EXCEPT ![c] = Rejected(err)]
        /\ UNCHANGED <<receipts, i, offset, previous, abi, contract>>

\* `await callback(events)` resolves: `offset += limit`, the next application
CallbackResolves(c) ==
    LET f == frame[c]
        off == NextOffset(offset[Slot(c)], f.limit)
    IN  /\ f.pc = "callback"
        /\ "callback" \in pending[c]
        /\ offset' = [offset EXCEPT ![Slot(c)] = off]
        /\ IssueApply(c, [f EXCEPT !.events = <<>>], off,
                      Append(trace[c], ResolveCallback(f.events)))
        /\ UNCHANGED <<receipts, i, outcome, previous, abi, contract>>

\* the callback's rejection caught, and the loop goes on
CallbackRejectsSwallowed(c, err) ==
    LET f == frame[c]
        off == NextOffset(offset[Slot(c)], f.limit)
    IN  /\ f.pc = "callback"
        /\ "callback" \in pending[c]
        /\ offset' = [offset EXCEPT ![Slot(c)] = off]
        /\ IssueApply(c, [f EXCEPT !.events = <<>>], off,
                      Append(trace[c], RejectCallback(f.events, err)))
        /\ UNCHANGED <<receipts, i, outcome, previous, abi, contract>>

\* `await callback(events)` rejects: nothing catches it
CallbackRejects(c, err) ==
    LET f == frame[c]
    IN  /\ f.pc = "callback"
        /\ "callback" \in pending[c]
        /\ frame' = [frame EXCEPT ![c].pc = "done", ![c].events = <<>>]
        /\ pending' = [pending EXCEPT ![c] = {}]
        /\ trace' = [trace EXCEPT ![c] =
                        Append(trace[c], RejectCallback(f.events, err))]
        /\ outcome' = [outcome EXCEPT ![c] = Rejected(err)]
        /\ UNCHANGED <<receipts, i, offset, previous, abi, contract>>

(* ------------------------------ Next ----------------------------------- *)

Next ==
    \/ \E txId \in TxIds, reverted \in BOOLEAN : MineTransaction(txId, reverted)
    \/ \E c \in Calls, txId \in TxIds, arg \in IterationArgs :
            CallWaitForReceipt(c, txId, arg)
    \/ \E c \in Calls : TickerNextResolves(c)
    \/ \E c \in Calls, err \in ClientFailures : TickerNextRejects(c, err)
    \/ \E c \in Calls : GetReceiptResolves(c)
    \/ \E c \in Calls, err \in ClientFailures : GetReceiptRejects(c, err)
    \/ \E c \in Calls, filter \in Filters, arg \in LimitArgs :
            CallFetchEvents(c, filter, arg)
    \/ \E c \in Calls, n \in 0..MaxRows :
            FilterApplyResolves(c, RowsAt(offset[Slot(c)], n))
    \/ \E c \in Calls, err \in ClientFailures : FilterApplyRejects(c, err)
    \/ \E c \in Calls : CallbackResolves(c)
    \/ \E c \in Calls, err \in CallbackFailures : CallbackRejects(c, err)

Spec == Init /\ [][Next]_vars

(* ------------------------- one caller, fairly -------------------------- *)

\* the caller of the single-invocation specifications
Caller == "a"

\* the steps of the chain and of one caller's invocation
NextSingle ==
    \/ \E txId \in TxIds, reverted \in BOOLEAN : MineTransaction(txId, reverted)
    \/ \E txId \in TxIds, arg \in IterationArgs :
            CallWaitForReceipt(Caller, txId, arg)
    \/ TickerNextResolves(Caller)
    \/ \E err \in ClientFailures : TickerNextRejects(Caller, err)
    \/ GetReceiptResolves(Caller)
    \/ \E err \in ClientFailures : GetReceiptRejects(Caller, err)
    \/ \E filter \in Filters, arg \in LimitArgs :
            CallFetchEvents(Caller, filter, arg)
    \/ \E n \in 0..MaxRows :
            FilterApplyResolves(Caller, RowsAt(offset[Slot(Caller)], n))
    \/ \E err \in ClientFailures : FilterApplyRejects(Caller, err)
    \/ CallbackResolves(Caller)
    \/ \E err \in CallbackFailures : CallbackRejects(Caller, err)

\* the request an invocation awaits is completed, one way or the other
Completion(c) ==
    \/ TickerNextResolves(c)
    \/ \E err \in ClientFailures : TickerNextRejects(c, err)
    \/ GetReceiptResolves(c)
    \/ \E err \in ClientFailures : GetReceiptRejects(c, err)
    \/ \E n \in 0..MaxRows : FilterApplyResolves(c, RowsAt(offset[Slot(c)], n))
    \/ \E err \in ClientFailures : FilterApplyRejects(c, err)
    \/ CallbackResolves(c)
    \/ \E err \in CallbackFailures : CallbackRejects(c, err)

\* one invocation, every request of which is eventually completed
SpecFair == Init /\ [][NextSingle]_vars /\ WF_vars(Completion(Caller))

(* ------------------------ reading the traces --------------------------- *)

IsWait(c) == frame[c].fn = "waitForReceipt"
IsFetch(c) == frame[c].fn = "fetchEvents"
Done(c) == frame[c].pc = "done"

\* the events of a kind and operation in a trace, in order
Events(tr, kind, op) == SelectSeq(tr, LAMBDA e : e.kind = kind /\ e.op = op)
Count(tr, kind, op) == Len(Events(tr, kind, op))

\* ticker.next() requests made, and ticks delivered
TicksRequested(c) == Count(trace[c], "call", "ticker.next")
TicksConsumed(c) == Count(trace[c], "resolve", "ticker.next")
\* getReceipt() requests made, and their answers
Queries(c) == Count(trace[c], "call", "getReceipt")
Answers(c) == Events(trace[c], "resolve", "getReceipt")

\* no request of the invocation was rejected
NoFailure(c) == \A p \in 1..Len(trace[c]) : trace[c][p].kind # "reject"
\* every answer to getReceipt was null
NeverMined(c) ==
    LET answers == Answers(c)
    IN  \A p \in 1..Len(answers) : answers[p].receipt = Null

\* the invocation has ended and nothing of it is in flight
Settled(c, result) ==
    /\ Done(c)
    /\ pending[c] = {}
    /\ outcome[c] = result

(* ------------------------------ claims --------------------------------- *)

\* C1: a waitForReceipt call with iterations = N > 0 never requests more
\* than N ticks; once N queries have all answered null it has failed with
\* "Transaction not found." after exactly N ticks, and a call that ended
\* with every answer null (and no failed request) ended that way.
C1_NotFoundAfterExactlyNTicks ==
    \A c \in Calls :
        IsWait(c) /\ frame[c].iterations > 0 =>
            LET N == frame[c].iterations
            IN  /\ TicksRequested(c) <= N
                /\ (NeverMined(c) /\ Len(Answers(c)) = N) =>
                        Settled(c, Rejected(NotFoundMessage))
                /\ (Done(c) /\ NeverMined(c) /\ NoFailure(c)) =>
                        /\ Settled(c, Rejected(NotFoundMessage))
                        /\ TicksRequested(c) = N
                        /\ TicksConsumed(c) = N
                        /\ Len(Answers(c)) = N

\* the scenario of the default budget: 5 ticks, 5 null answers, NotFound
C1_Witness ==
    \E c \in Calls :
        /\ IsWait(c)
        /\ frame[c].iterations = DefaultIterations
        /\ NeverMined(c)
        /\ TicksConsumed(c) = DefaultIterations
        /\ Settled(c, Rejected(NotFoundMessage))

\* C2: a waitForReceipt call with iterations = 0 has failed with
\* "Transaction not found." as soon as it is made, having requested no tick
\* and no receipt, whatever the chain holds for its transaction.
C2_ZeroBudgetFailsAtOnce ==
    \A c \in Calls :
        IsWait(c) /\ frame[c].iterations = 0 =>
            /\ Settled(c, Rejected(NotFoundMessage))
            /\ trace[c] = <<>>

\* a zero-budget call that failed although the receipt exists on the chain
C2_Witness ==
    \E c \in Calls :
        /\ IsWait(c)
        /\ frame[c].iterations = 0
        /\ receipts[frame[c].txId] # Null
        /\ ~receipts[frame[c].txId][1].reverted
        /\ outcome[c] = Rejected(NotFoundMessage)

\* position p of the trace is an answer to getReceipt that carries a receipt
ObservesReceipt(c, p) ==
    /\ trace[c][p].kind = "resolve"
    /\ trace[c][p].op = "getReceipt"
    /\ trace[c][p].receipt # Null

\* the answer at position p is the k-th and last thing the call did: k ticks
\* requested and delivered, k queries, the first k - 1 answered null
EndedAtTick(c, p) ==
    LET answers == Answers(c)
        k == Len(answers)
    IN  /\ p = Len(trace[c])
        /\ k \in 1..frame[c].iterations
        /\ TicksRequested(c) = k
        /\ TicksConsumed(c) = k
        /\ Queries(c) = k
        /\ \A q \in 1..(k - 1) : answers[q].receipt = Null

\* C3: when an answer to getReceipt carries a reverted receipt, the call has
\* failed with "The transaction has been reverted." at that tick k: k ticks
\* and k queries were made, and nothing is requested afterwards.
C3_RevertedFailsAtTickK ==
    \A c \in Calls : \A p \in 1..Len(trace[c]) :
        (ObservesReceipt(c, p) /\ trace[c][p].receipt[1].reverted) =>
            /\ EndedAtTick(c, p)
            /\ Settled(c, Rejected(RevertedMessage))

\* the scenario: budget 5, reverted receipt at tick 2, two ticks consumed
C3_Witness ==
    \E c \in Calls :
        /\ IsWait(c)
        /\ frame[c].iterations = DefaultIterations
        /\ TicksConsumed(c) = 2
        /\ ObservesReceipt(c, Len(trace[c]))
        /\ outcome[c] = Rejected(RevertedMessage)

\* C4: when an answer to getReceipt carries a receipt that is not reverted,
\* the call has returned exactly that receipt, the one of its txId, at that
\* tick k <= iterations; and no call returns a reverted receipt.
C4_ReceiptReturnedAtTickK ==
    \A c \in Calls :
        /\ \A p \in 1..Len(trace[c]) :
                (ObservesReceipt(c, p) /\ ~trace[c][p].receipt[1].reverted) =>
                    /\ EndedAtTick(c, p)
                    /\ Settled(c, Resolved(trace[c][p].receipt))
                    /\ trace[c][p].receipt = <<Receipt(frame[c].txId, FALSE)>>
        /\ (IsWait(c) /\ outcome[c].status = "resolved") =>
                /\ outcome[c].value # Null
                /\ ~outcome[c].value[1].reverted

\* the boundary: the receipt shows up at the last tick of the budget
C4_Witness ==
    \E c \in Calls :
        /\ IsWait(c)
        /\ frame[c].iterations = MaxIterations
        /\ TicksConsumed(c) = MaxIterations
        /\ outcome[c] = Resolved(<<Receipt(frame[c].txId, FALSE)>>)


\* the pages the filter returned, its applications, the onPage invocations
Pages(c) == Events(trace[c], "resolve", "filter.apply")
Applications(c) == Events(trace[c], "call", "filter.apply")
Invocations(c) == Events(trace[c], "call", "callback")

\* C5: a fetchEvents call applies the filter at offsets 0, limit, 2*limit,
\* ...; it invokes onPage once for every non-empty page, in that order and
\* with the whole page, whatever the page's length; only an empty page ends
\* the call, and after a page was handled the next application is made.
C5_OnPagePerNonEmptyPageInOffsetOrder ==
    \A c \in Calls :
        IsFetch(c) =>
            LET limit == frame[c].limit
                applications == Applications(c)
                pages == Pages(c)
                invocations == Invocations(c)
            IN  /\ \A j \in 1..Len(applications) :
                        /\ applications[j].offset = (j - 1) * limit
                        /\ applications[j].limit = limit
                /\ \A j \in 1..Len(pages) :
                        IF pages[j].rows = <<>>
                        THEN /\ j = Len(pages)
                             /\ Len(invocations) = j - 1
                             /\ Settled(c, Resolved(Null))
                        ELSE /\ Len(invocations) >= j
                             /\ invocations[j].rows = pages[j].rows
                             /\ pages[j].offset = (j - 1) * limit
                /\ Len(invocations) <= Len(pages)
                /\ Len(applications)
                     = Count(trace[c], "resolve", "callback") + 1

\* the scenario [20, 7, 0] at limit 2: pages of 2, 1 and 0 rows, onPage
\* invoked twice, with the rows of offsets 0 and 2
C5_Witness ==
    \E c \in Calls :
        /\ IsFetch(c)
        /\ frame[c].limit = 2
        /\ Len(Pages(c)) = 3
        /\ Pages(c)[3].rows = <<>>
        /\ Len(Invocations(c)) = 2
        /\ Invocations(c)[1].rows = <<1, 2>>
        /\ Invocations(c)[2].rows = <<3>>
        /\ Settled(c, Resolved(Null))

\* C6: when the first page (offset 0) is empty the fetchEvents call has
\* completed successfully, with one filter application and no onPage call.
C6_EmptyFirstPageCompletes ==
    \A c \in Calls :
        (IsFetch(c) /\ Len(Pages(c)) >= 1 /\ Pages(c)[1].rows = <<>>) =>
            /\ Settled(c, Resolved(Null))
            /\ Pages(c)[1].offset = 0
            /\ Len(Applications(c)) = 1
            /\ Len(Invocations(c)) = 0
            /\ Len(trace[c]) = 2

\* a call, with the default limit, whose first page was empty
C6_Witness ==
    \E c \in Calls :
        /\ IsFetch(c)
        /\ frame[c].limit = DefaultLimit
        /\ Len(Pages(c)) = 1
        /\ Pages(c)[1].rows = <<>>
        /\ outcome[c] = Resolved(Null)

\* C7: when onPage has failed on a page, the fetchEvents call has failed
\* with that same failure, and the failure is the last thing in its trace:
\* no application of the filter and no onPage invocation follows.
C7_CallbackFailureStopsPagination ==
    \A c \in Calls : \A p \in 1..Len(trace[c]) :
        (trace[c][p].kind = "reject" /\ trace[c][p].op = "callback") =>
            /\ p = Len(trace[c])
            /\ Settled(c, Rejected(trace[c][p].error))
            /\ Len(Applications(c)) = Len(Invocations(c))

\* onPage failed on the second page
C7_Witness ==
    \E c \in Calls :
        /\ IsFetch(c)
        /\ Len(Invocations(c)) = 2
        /\ trace[c][Len(trace[c])].kind = "reject"
        /\ trace[c][Len(trace[c])].op = "callback"
        /\ outcome[c].status = "rejected"
        /\ outcome[c].error \in CallbackFailures

\* C8: an invocation has at most one request in flight, the one it made
\* last; every request is completed before the next one is made; and in a
\* fetchEvents call a page's onPage invocation completes before the filter
\* is applied again, an application completes before onPage is invoked.
C8_OneRequestInFlight ==
    \A c \in Calls :
        LET tr == trace[c]
            n == Len(tr)
        IN  /\ Cardinality(pending[c]) <= 1
            /\ pending[c] = IF n > 0 /\ tr[n].kind = "call"
                            THEN {tr[n].op} ELSE {}
            /\ \A p \in 1..(n - 1) :
                    /\ tr[p].kind = "call" =>
                            /\ tr[p + 1].kind \in {"resolve", "reject"}
                            /\ tr[p + 1].op = tr[p].op
                    /\ tr[p].kind # "call" => tr[p + 1].kind = "call"
                    /\ (tr[p].kind = "call" /\ tr[p].op = "callback") =>
                            tr[p - 1].op = "filter.apply"
                    /\ (tr[p + 1].kind = "call" /\ tr[p + 1].op = "filter.apply") =>
                            (tr[p].kind = "resolve" /\ tr[p].op = "callback")

\* the filter is applied for the third page, two onPage invocations done
C8_Witness ==
    \E c \in Calls :
        /\ IsFetch(c)
        /\ pending[c] = {"filter.apply"}
        /\ Len(Applications(c)) = 3
        /\ Count(trace[c], "resolve", "callback") = 2

ClientOps == {"ticker.next", "getReceipt", "filter.apply"}

\* C9: when a request to the chain client has been rejected, the invocation
\* has failed with exactly that failure, and the rejection is the last thing
\* in its trace: no retry and no further request.
C9_ClientFailurePropagates ==
    \A c \in Calls : \A p \in 1..Len(trace[c]) :
        (trace[c][p].kind = "reject" /\ trace[c][p].op \in ClientOps) =>
            /\ p = Len(trace[c])
            /\ Settled(c, Rejected(trace[c][p].error))
            /\ trace[c][p].error \in ClientFailures

\* the failing request of c, if its trace ends with one
FailedAt(c, op) ==
    /\ trace[c] # <<>>
    /\ trace[c][Len(trace[c])].kind = "reject"
    /\ trace[c][Len(trace[c])].op = op

\* getReceipt rejected at the second tick of one call, and the filter's
\* second application rejected in the other
C9_Witness ==
    \E c, d \in Calls :
        /\ FailedAt(c, "getReceipt")
        /\ TicksConsumed(c) = 2
        /\ FailedAt(d, "filter.apply")
        /\ Len(Applications(d)) = 2
        /\ outcome[c].status = "rejected"
        /\ outcome[d].status = "rejected"

(* ------------------------ one invocation alone ------------------------- *)

\* the completions an invocation got from the client and the callback
Responses(tr) == SelectSeq(tr, LAMBDA e : e.kind # "call")

RECURSIVE WaitAlone(_, _, _, _)
\* waitForReceipt run by itself from the loop head with counter ii, the
\* completions resps answering its requests in order: the trace it leaves
\* and the state of its promise
WaitAlone(f, ii, resps, tr) ==
    IF BudgetExhausted(ii, f.iterations)
    THEN [trace |-> tr, outcome |-> Rejected(NotFoundMessage)]
    ELSE IF resps = <<>>
    THEN [trace |-> Append(tr, CallTick), outcome |-> PendingOutcome]
    ELSE IF resps[1].kind = "reject"
    THEN [trace |-> tr \o <<CallTick, resps[1]>>,
          outcome |-> Rejected(resps[1].error)]
    ELSE IF Len(resps) = 1
    THEN [trace |-> tr \o <<CallTick, resps[1], CallGetReceipt(f.txId)>>,
          outcome |-> PendingOutcome]
    ELSE LET answer == resps[2]
             tr2 == tr \o <<CallTick, resps[1], CallGetReceipt(f.txId), answer>>
         IN  IF answer.kind = "reject"
             THEN [trace |-> tr2, outcome |-> Rejected(answer.error)]
             ELSE IF IsReverted(answer.receipt)
             THEN [trace |-> tr2, outcome |-> Rejected(RevertedMessage)]
             ELSE IF IsPresent(answer.receipt)
             THEN [trace |-> tr2, outcome |-> Resolved(answer.receipt)]
             ELSE WaitAlone(f, ii + 1, SubSeq(resps, 3, Len(resps)), tr2)

RECURSIVE FetchAlone(_, _, _, _)
\* fetchEvents run by itself from the top of the loop with offset off
FetchAlone(f, off, resps, tr) ==
    LET tr1 == Append(tr, CallApply(f.filter, off, f.limit))
    IN  IF resps = <<>>
        THEN [trace |-> tr1, outcome |-> PendingOutcome]
        ELSE IF resps[1].kind = "reject"
        THEN [trace |-> Append(tr1, resps[1]),
              outcome |-> Rejected(resps[1].error)]
        ELSE IF EndOfStream(resps[1].rows)
        THEN [trace |-> Append(tr1, resps[1]), outcome |-> Resolved(Null)]
        ELSE IF Len(resps) = 1
        THEN [trace |-> tr1 \o <<resps[1], CallCallback(resps[1].rows)>>,
              outcome |-> PendingOutcome]
        ELSE LET tr2 == tr1 \o <<resps[1], CallCallback(resps[1].rows), resps[2]>>
             IN  IF resps[2].kind = "reject"
                 THEN [trace |-> tr2, outcome |-> Rejected(resps[2].error)]
                 ELSE FetchAlone(f, NextOffset(off, f.limit),
                                 SubSeq(resps, 3, Len(resps)), tr2)

\* the invocation of frame f run by itself against the completions resps
RunAlone(f, resps) ==
    IF f.fn = "waitForReceipt" THEN WaitAlone(f, 0, resps, <<>>)
    ELSE FetchAlone(f, 0, resps, <<>>)

\* C10: in every interleaving of two invocations, each one's requests
\* (ticks, queries, filter offsets, onPage invocations) and its outcome are
\* those of the same call run alone against the completions it received.
C10_InterleavedCallsRunAsAlone ==
    \A c \in Calls :
        frame[c].fn # "none" =>
            [trace |-> trace[c], outcome |-> outcome[c]]
                = RunAlone(frame[c], Responses(trace[c]))

\* a waitForReceipt call past its second tick and a fetchEvents call past
\* its first page, both suspended
C10_Witness ==
    \E c, d \in Calls :
        /\ IsWait(c)
        /\ frame[c].pc = "receipt"
        /\ TicksConsumed(c) = 2
        /\ i[c] = 1
        /\ IsFetch(d)
        /\ frame[d].pc = "callback"
        /\ offset[d] = frame[d].limit
        /\ Len(Invocations(d)) = 2

(* ------------------------ calling once more --------------------------- *)

\* the caller takes the settled promise of its invocation and is free to
\* call again; nothing of the invocation is kept but what the storage of
\* `i` and `offset` still holds
Return(c) ==
    /\ Done(c)
    /\ previous[c].count < MaxRetries
    /\ previous' = [previous EXCEPT ![c] =
                        [count |-> previous[c].count + 1,
                         fn |-> frame[c].fn,
                         txId |-> frame[c].txId,
                         filter |-> frame[c].filter,
                         i |-> i[Slot(c)],
                         offset |-> offset[Slot(c)],
                         outcome |-> outcome[c]]]
    /\ frame' = [frame EXCEPT ![c] = NoFrame]
    /\ pending' = [pending EXCEPT ![c] = {}]
    /\ trace' = [trace EXCEPT ![c] = <<>>]
    /\ outcome' = [outcome EXCEPT ![c] = PendingOutcome]
    /\ UNCHANGED <<receipts, i, offset, abi, contract>>

NextRetry ==
    \/ NextSingle
    \/ Return(Caller)

\* one caller that calls again after an invocation has settled
SpecRetry == Init /\ [][NextRetry]_vars

(* ---------------------------- getContract ----------------------------- *)

\* `name?: string`: absent, or one of two names
Names == {"f", "g"}

\* `type AbiType`
AbiTypes == {"function", "constructor", "event", "fallback", "receive"}

\* `type StateMutabilityType`
StateMutabilities == {"pure", "view", "nonpayable", "payable"}

\* `type AbiItem`, the fields getContract reads; an optional field is a
\* sequence of at most one value
AbiItems ==
    [name : {<<>>} \cup {<<n>> : n \in Names},
     type : AbiTypes,
     stateMutability : {<<>>} \cup {<<m>> : m \in StateMutabilities}]

\* `abi: AbiItem[]`
AbiLists == UNION {[1..n -> AbiItems] : n \in 0..MaxAbiItems}

\* `item.name != null && item.type === "function"`
IsNamedFunction(item) == item.name # <<>> /\ item.type = "function"

\* a pure function taken for a constant one as well
IsConstantOrPure(item) == item.stateMutability \in {<<"view">>, <<"pure">>}

\* `item.stateMutability === "view"`
IsConstant(item) == item.stateMutability = <<"view">>

\* `item.name != null && item.type === "event"`
IsNamedEvent(item) == item.name # <<>> /\ item.type = "event"

\* `table[item.name] = ...`: a new key, or a new value under an old key
Put(table, item) ==
    [n \in DOMAIN table \cup {item.name[1]} |->
        IF n = item.name[1] THEN item ELSE table[n]]

\* the body of `for (const item of abi)`
AddItem(c, item) ==
    IF IsNamedFunction(item)
    THEN IF IsConstant(item)
         THEN [c EXCEPT !.constant = Put(c.constant, item)]
         ELSE [c EXCEPT !.signed = Put(c.signed, item),
                        !.clause = Put(c.clause, item)]
    ELSE IF IsNamedEvent(item)
         THEN [c EXCEPT !.events = Put(c.events, item)]
         ELSE c

\* `for (const item of abi)`, from item k on
RECURSIVE GetContractFrom(_, _, _)
GetContractFrom(c, list, k) ==
    IF k > Len(list) THEN c
    ELSE GetContractFrom(AddItem(c, list[k]), list, k + 1)

\* `getContract(abi, address)`
GetContract(list) == GetContractFrom(EmptyContract, list, 1)

\* any ABI list may be handed to getContract
InitContract ==
    /\ receipts \in [TxIds -> {Null}]
    /\ frame = [c \in Calls |-> NoFrame]
    /\ i = [c \in Calls |-> 0]
    /\ offset = [c \in Calls |-> 0]
    /\ pending = [c \in Calls |-> {}]
    /\ trace = [c \in Calls |-> <<>>]
    /\ outcome = [c \in Calls |-> PendingOutcome]
    /\ previous = [c \in Calls |-> NoPrevious]
    /\ abi \in AbiLists
    /\ contract = EmptyContract

\* the call runs to its `return contract` without suspending
CallGetContract ==
    /\ ~contract.returned
    /\ contract' = [GetContract(abi) EXCEPT !.returned = TRUE]
    /\ UNCHANGED <<receipts, frame, i, offset, pending, trace, outcome,
                   previous, abi>>

NextContract == CallGetContract

SpecContract == InitContract /\ [][NextContract]_vars

(* ---------------------- claims on one invocation ----------------------- *)

\* C11: an empty page, at whatever offset, is the last thing a fetchEvents
\* call sees: the call has resolved and applies the filter no more; and a
\* call that resolved ended on an empty page, with one filter application
\* more than onPage invocations.
C11_EmptyPageEndsPagination ==
    \A c \in Calls :
        IsFetch(c) =>
            LET tr == trace[c]
                n == Len(tr)
            IN  /\ \A p \in 1..n :
                        (tr[p].kind = "resolve" /\ tr[p].op = "filter.apply"
                            /\ tr[p].rows = <<>>) =>
                                /\ p = n
                                /\ Settled(c, Resolved(Null))
                /\ outcome[c].status = "resolved" =>
                        /\ tr[n].kind = "resolve"
                        /\ tr[n].op = "filter.apply"
                        /\ tr[n].rows = <<>>
                        /\ Len(Applications(c)) = Len(Invocations(c)) + 1
                        /\ Count(tr, "resolve", "callback") = Len(Invocations(c))

\* an empty page at a later offset ended the call although the filter had
\* rows left to return
C11_Witness ==
    \E c \in Calls :
        /\ IsFetch(c)
        /\ Settled(c, Resolved(Null))
        /\ offset[c] > 0
        /\ Len(Applications(c)) = 2
        /\ Delivered(trace[c]) < MaxRows

\* C14: the filter applications of a fetchEvents call are numbered from 0:
\* application number k has offset k * limit and limit `limit`; offsets
\* grow by limit from one application to the next whatever the page between
\* them held, and `offset` is the offset of the latest application.
C14_OffsetsAdvanceByLimit ==
    \A c \in Calls :
        IsFetch(c) =>
            LET limit == frame[c].limit
                applications == Applications(c)
                n == Len(applications)
            IN  /\ limit >= 1
                /\ n >= 1
                /\ applications[1].offset = 0
                /\ \A j \in 1..n :
                        /\ applications[j].offset = (j - 1) * limit
                        /\ applications[j].limit = limit
                /\ \A j \in 2..n :
                        /\ applications[j].offset > applications[j - 1].offset
                        /\ applications[j].offset
                             = applications[j - 1].offset + limit
                /\ offset[c] = applications[n].offset

\* three applications at the default limit, at 0, 20 and 40, after two
\* pages of one row each
C14_Witness ==
    \E c \in Calls :
        /\ IsFetch(c)
        /\ frame[c].limit = DefaultLimit
        /\ Len(Applications(c)) = 3
        /\ offset[c] = 2 * DefaultLimit
        /\ Len(Pages(c)) >= 2
        /\ Len(Pages(c)[1].rows) = 1
        /\ Len(Pages(c)[2].rows) = 1

\* rows off+1 .. off+limit of a result set of total rows, as far as they exist
ExactSlice(total, off, limit) ==
    LET left == IF total > off THEN total - off ELSE 0
    IN  RowsAt(off, IF limit < left THEN limit ELSE left)

RECURSIVE Concat(_)
\* the rows of a sequence of events, page after page
Concat(events) ==
    IF events = <<>> THEN <<>> ELSE Head(events).rows \o Concat(Tail(events))

\* every page the call got is the exact slice of a result set of total rows
SlicesOf(c, total) ==
    LET pages == Pages(c)
    IN  \A j \in 1..Len(pages) :
            pages[j].rows = ExactSlice(total, pages[j].offset, pages[j].limit)

\* C16: when every page the filter returned is the exact window
\* [offset, offset + limit) of one result set of `total` rows, the pages
\* handed to onPage, put end to end, are rows 1 .. k of it in order, and
\* once the call has resolved they are the whole result set, 1 .. total.
C16_ExactFilterDeliversEveryRowOnce ==
    \A c \in Calls : \A total \in 0..MaxRows :
        (IsFetch(c) /\ NoFailure(c) /\ SlicesOf(c, total)) =>
            LET delivered == Concat(Invocations(c))
            IN  /\ delivered = RowsAt(0, Len(delivered))
                /\ Len(delivered) <= total
                /\ outcome[c].status = "resolved" =>
                        delivered = RowsAt(0, total)

\* a result set of three rows read at limit 2: pages <<1, 2>> and <<3>>
C16_Witness ==
    \E c \in Calls :
        /\ IsFetch(c)
        /\ frame[c].limit = 2
        /\ SlicesOf(c, 3)
        /\ Concat(Invocations(c)) = <<1, 2, 3>>
        /\ Settled(c, Resolved(Null))

\* what holds of a waitForReceipt call in every state
WaitInvariant(c) ==
    LET tr == trace[c]
        ticks == TicksConsumed(c)
        queries == Queries(c)
    IN  /\ queries <= ticks
        /\ ticks <= queries + 1
        /\ TicksRequested(c) <= queries + 1
        /\ Len(Answers(c)) <= queries
        /\ \A p \in 1..Len(tr) :
                (tr[p].kind = "call" /\ tr[p].op = "getReceipt") =>
                    /\ p > 1
                    /\ tr[p - 1].kind = "resolve"
                    /\ tr[p - 1].op = "ticker.next"
        /\ (queries > 0 \/ outcome[c].status = "resolved"
                \/ outcome[c] = Rejected(RevertedMessage)) => ticks >= 1
        /\ i[c] <= frame[c].iterations
        /\ i[c] <= ticks
        /\ ticks <= frame[c].iterations

\* C15: in a waitForReceipt call every getReceipt query follows a tick of
\* its own: queries never outnumber the ticks consumed and lag them by at
\* most one, no query is made and no receipt or Reverted reported before
\* the first tick, the counter never passes `iterations`, and no step of
\* the call changes the chain's receipts.
C15_OneQueryPerTick ==
    /\ [](\A c \in Calls : IsWait(c) => WaitInvariant(c))
    /\ [][\A c \in Calls :
            (IsWait(c)' /\ trace'[c] # trace[c]) => receipts' = receipts]_vars

\* the receipt is on the chain, the call waits for its first tick and has
\* neither asked for the receipt nor settled
C15_Witness ==
    \E c \in Calls :
        /\ IsWait(c)
        /\ receipts[frame[c].txId] # Null
        /\ frame[c].pc = "tick"
        /\ TicksConsumed(c) = 0
        /\ Queries(c) = 0
        /\ outcome[c] = PendingOutcome

\* how a waitForReceipt call may end when none of its requests failed
WaitOutcomes(c) ==
    {Resolved(<<Receipt(frame[c].txId, FALSE)>>),
     Rejected(RevertedMessage),
     Rejected(NotFoundMessage)}

\* C17: when every request is eventually completed, a waitForReceipt call
\* eventually ends; it ends within `iterations` ticks; if no request failed
\* it ends with the receipt (not reverted), with Reverted or with NotFound,
\* and with NotFound only after `iterations` queries all answered null.
C17_WaitTerminates ==
    /\ \A c \in Calls : IsWait(c) ~> Done(c)
    /\ [](\A c \in Calls :
            (IsWait(c) /\ Done(c)) =>
                /\ outcome[c].status # "pending"
                /\ pending[c] = {}
                /\ TicksConsumed(c) <= frame[c].iterations
                /\ NoFailure(c) => outcome[c] \in WaitOutcomes(c)
                /\ outcome[c] = Rejected(NotFoundMessage) =>
                        /\ NeverMined(c)
                        /\ Len(Answers(c)) = frame[c].iterations)

\* a call that ended with the receipt at its second tick
C17_Witness ==
    \E c \in Calls :
        /\ IsWait(c)
        /\ Done(c)
        /\ TicksConsumed(c) = 2
        /\ outcome[c].status = "resolved"

\* the filter has returned an empty page to the call
SawEmptyPage(c) ==
    LET pages == Pages(c)
    IN  \E j \in 1..Len(pages) : pages[j].rows = <<>>

\* C18: when every request is eventually completed and the filter comes to
\* return an empty page, a fetchEvents call eventually ends, successfully
\* if no request failed; nothing but an empty page (or a failure) ends it:
\* as long as every page held rows the call has a request in flight.
C18_FetchEndsOnlyOnEmptyPage ==
    /\ \A c \in Calls : IsFetch(c) ~> Done(c)
    /\ [](\A c \in Calls :
            IsFetch(c) =>
                /\ (Done(c) /\ NoFailure(c)) =>
                        /\ Settled(c, Resolved(Null))
                        /\ SawEmptyPage(c)
                /\ (NoFailure(c) /\ ~SawEmptyPage(c)) =>
                        /\ ~Done(c)
                        /\ outcome[c] = PendingOutcome
                        /\ pending[c] # {})

\* the call went through as many pages as the filter had rows: MaxRows
\* pages of one row, then the empty page
C18_Witness ==
    \E c \in Calls :
        /\ IsFetch(c)
        /\ frame[c].limit = 1
        /\ Len(Invocations(c)) = MaxRows
        /\ Len(Applications(c)) = MaxRows + 1
        /\ Settled(c, Resolved(Null))

\* the answers to getReceipt that carried no receipt
NullAnswers(c) ==
    Len(SelectSeq(Answers(c), LAMBDA e : e.receipt = Null))

\* C12: whatever the caller's previous invocation left behind, a
\* fetchEvents call applies the filter first at offset 0 and its offset is
\* limit times the pages it has handled itself; a waitForReceipt call
\* counts from 0, one per null answer of its own, requests its first tick
\* whenever iterations > 0 and has its whole budget of `iterations` ticks.
C12_EveryCallStartsAfresh ==
    \A c \in Calls :
        /\ IsFetch(c) =>
                /\ Applications(c)[1].offset = 0
                /\ offset[c] = frame[c].limit * Count(trace[c], "resolve", "callback")
        /\ IsWait(c) =>
                /\ i[c] = NullAnswers(c)
                /\ frame[c].iterations > 0 => TicksRequested(c) >= 1
                /\ TicksRequested(c) <= frame[c].iterations
                /\ (Done(c) /\ NeverMined(c) /\ NoFailure(c)) =>
                        TicksConsumed(c) = frame[c].iterations

\* onPage failed in the previous call at a later offset; the call made
\* again on the same filter has applied it at offset 0 and moved on
C12_Witness ==
    \E c \in Calls :
        /\ previous[c].count = 1
        /\ previous[c].fn = "fetchEvents"
        /\ previous[c].offset > 0
        /\ previous[c].outcome.status = "rejected"
        /\ previous[c].outcome.error \in CallbackFailures
        /\ IsFetch(c)
        /\ frame[c].filter = previous[c].filter
        /\ Applications(c)[1].offset = 0
        /\ Len(Applications(c)) = 2

\* NotFound in the previous call; the call made again for the same txId
\* has used a whole budget of its own and ended with NotFound too
C12_RetryAfterNotFound ==
    \E c \in Calls :
        /\ previous[c].count = 1
        /\ previous[c].fn = "waitForReceipt"
        /\ previous[c].outcome = Rejected(NotFoundMessage)
        /\ previous[c].i = MaxIterations
        /\ IsWait(c)
        /\ frame[c].txId = previous[c].txId
        /\ frame[c].iterations = MaxIterations
        /\ TicksConsumed(c) = MaxIterations
        /\ outcome[c] = Rejected(NotFoundMessage)

(* ------------------------ claims on getContract ------------------------ *)

\* the names of the items of the ABI list that satisfy P
NamesOf(P(_)) ==
    {abi[k].name[1] : k \in {j \in 1..Len(abi) : abi[j].name # <<>> /\ P(abi[j])}}

ViewFunction(item) ==
    item.type = "function" /\ item.stateMutability = <<"view">>

OtherFunction(item) ==
    item.type = "function" /\ item.stateMutability # <<"view">>

Event(item) == item.type = "event"

\* the claim as it stands: the tables partition the names, for every list
C13_PartitionOfNames ==
    contract.returned =>
        /\ \A n \in NamesOf(ViewFunction) :
                /\ n \in DOMAIN contract.constant
                /\ n \notin DOMAIN contract.signed
                /\ n \notin DOMAIN contract.clause
        /\ \A n \in NamesOf(OtherFunction) :
                /\ n \in DOMAIN contract.signed
                /\ n \in DOMAIN contract.clause
                /\ n \notin DOMAIN contract.constant
        /\ \A n \in NamesOf(Event) :
                /\ n \in DOMAIN contract.events
                /\ n \notin DOMAIN contract.constant
                /\ n \notin DOMAIN contract.signed
                /\ n \notin DOMAIN contract.clause
        /\ DOMAIN contract.constant \subseteq NamesOf(ViewFunction)
        /\ DOMAIN contract.signed \subseteq NamesOf(OtherFunction)
        /\ DOMAIN contract.events \subseteq NamesOf(Event)
        /\ DOMAIN contract.signed = DOMAIN contract.clause
        /\ DOMAIN contract.signed \cap DOMAIN contract.constant = {}

\* C13: for every ABI list, the keys of methods.constant are the names of
\* its view functions, the keys of methods.signed and of methods.clause
\* are the names of its other functions (pure, nonpayable, payable or
\* unspecified), the keys of events are the names of its events, and items
\* without a name or of another type add no key. methods.signed and
\* methods.clause have the same key set; the keys it shares with
\* methods.constant are the names borne both by a view function and by
\* another function, so the two are disjoint when no name is.
C13_ItemsFiledByMutability ==
    contract.returned =>
        /\ DOMAIN contract.constant = NamesOf(ViewFunction)
        /\ DOMAIN contract.signed = NamesOf(OtherFunction)
        /\ DOMAIN contract.clause = NamesOf(OtherFunction)
        /\ DOMAIN contract.events = NamesOf(Event)
        /\ DOMAIN contract.signed \cap DOMAIN contract.constant =
                NamesOf(ViewFunction) \cap NamesOf(OtherFunction)
        /\ \A n \in DOMAIN contract.constant : ViewFunction(contract.constant[n])
        /\ \A n \in DOMAIN contract.signed :
                /\ OtherFunction(contract.signed[n])
                /\ contract.clause[n] = contract.signed[n]
        /\ \A n \in DOMAIN contract.events : Event(contract.events[n])

\* a view function and a function that is not: one key in
\* methods.constant, another in methods.signed and methods.clause
C13_Witness ==
    /\ contract.returned
    /\ Len(abi) = 2
    /\ abi[1] = [name |-> <<"f">>, type |-> "function",
                 stateMutability |-> <<"view">>]
    /\ abi[2] = [name |-> <<"g">>, type |-> "function",
                 stateMutability |-> <<"pure">>]
    /\ DOMAIN contract.constant = {"f"}
    /\ DOMAIN contract.signed = {"g"}
    /\ DOMAIN contract.clause = {"g"}
    /\ DOMAIN contract.events = {}
====
